---- MODULE Spec2Model ----
(***************************************************************************)
(* Predictive-maintenance dashboard (src/app.py) and PDF report generator  *)
(* (src/reports/generate_pdf_report.py).                                   *)
(*                                                                         *)
(* A table is [columns |-> sequence of column names, rows |-> sequence of  *)
(* rows]. str.startswith and DataFrame.filter(like=...) are computed on    *)
(* the characters of a column name (Chars).                                *)
(* A row carries machine_id, failure_label, remaining_minutes and `feat`,  *)
(* the values of every other column, keyed by column name.                 *)
(***************************************************************************)
EXTENDS Integers, Sequences, FiniteSets, TLC

VARIABLES
    file,            \* the CSV at data/processed/agri_features.csv
    cache_data,      \* process-wide st.cache_data store of load_data
    cache_resource,  \* process-wide st.cache_resource store of train_models
    fits,            \* completed clf.fit/reg.fit pairs in this process
    sess,            \* per dashboard session: script position, widgets, outputs
    report           \* the report generator's run

vars == <<file, cache_data, cache_resource, fits, sess, report>>

-----------------------------------------------------------------------------
(* Bounds of the model *)

MaxRows == 3

(* The values the model draws cells, sessions and predictions from *)
MachineIds == {"A", "B"}
SessionIds == {1, 2}
RULValues == {30, 90}
ProbaLevels == {0, 50, 100}

-----------------------------------------------------------------------------
(* Column names *)

MACHINE_ID == "machine_id"
FAILURE_LABEL == "failure_label"
REMAINING_MINUTES == "remaining_minutes"
OPERATING_MODE_X == "operating_mode_X"
OPERATING_MODE_Y == "operating_mode_Y"
\* a sensor column that is not a one-hot operating-mode indicator
PREV_OPERATING_MODE == "prev_operating_mode"
\* the literal of app.py:45
MODE_PREFIX == "operating_mode_"
\* the literal of generate_pdf_report.py:25
MODE_LIKE == "operating_mode"

\* a string as the sequence of its characters
Chars(str) ==
    CASE str = MACHINE_ID ->
        <<"m","a","c","h","i","n","e","_","i","d">>
      [] str = FAILURE_LABEL ->
        <<"f","a","i","l","u","r","e","_","l","a","b","e","l">>
      [] str = REMAINING_MINUTES ->
        <<"r","e","m","a","i","n","i","n","g","_","m","i","n","u","t","e","s">>
      [] str = OPERATING_MODE_X ->
        <<"o","p","e","r","a","t","i","n","g","_","m","o","d","e","_","X">>
      [] str = OPERATING_MODE_Y ->
        <<"o","p","e","r","a","t","i","n","g","_","m","o","d","e","_","Y">>
      [] str = PREV_OPERATING_MODE ->
        <<"p","r","e","v","_","o","p","e","r","a","t","i","n","g","_","m","o","d","e">>
      [] str = MODE_PREFIX ->
        <<"o","p","e","r","a","t","i","n","g","_","m","o","d","e","_">>
      [] str = MODE_LIKE ->
        <<"o","p","e","r","a","t","i","n","g","_","m","o","d","e">>

\* the columns train_models and the prediction drop
DROPPED == <<FAILURE_LABEL, REMAINING_MINUTES, MACHINE_ID>>

-----------------------------------------------------------------------------
(* Library functions, as the code uses them *)

\* str.startswith
startswith(name, prefix) ==
    /\ Len(Chars(name)) >= Len(Chars(prefix))
    /\ SubSeq(Chars(name), 1, Len(Chars(prefix))) = Chars(prefix)

\* the test of DataFrame.filter(like=sub): sub in name
like(name, sub) ==
    \E i \in 1..(Len(Chars(name)) - Len(Chars(sub)) + 1) :
        SubSeq(Chars(name), i, i + Len(Chars(sub)) - 1) = Chars(sub)

HasColumn(columns, c) == \E i \in 1..Len(columns) : columns[i] = c

\* the numeric cell of row r in column c
Cell(r, c) ==
    IF c = FAILURE_LABEL THEN r.failure_label
    ELSE IF c = REMAINING_MINUTES THEN r.remaining_minutes
    ELSE r.feat[c]

RECURSIVE ColumnSum(_, _)
ColumnSum(rows, c) ==
    IF rows = <<>> THEN 0
    ELSE Cell(Head(rows), c) + ColumnSum(Tail(rows), c)

\* sum as a group-wise total would be: no rows, no entries
sum_nonempty(rows, cols) ==
    IF rows = <<>> THEN <<>>
    ELSE [i \in 1..Len(cols) |-> <<cols[i], ColumnSum(rows, cols[i])>>]

\* DataFrame[cols].sum(): one entry <<name, total>> per column, in column order;
\* over no rows every total is 0
sum(rows, cols) == [i \in 1..Len(cols) |-> <<cols[i], ColumnSum(rows, cols[i])>>]

\* Series.sort_values(): ascending; the default kind sorts the few entries of
\* this Series by insertion, so equal values keep their order
RECURSIVE Insert(_, _)
Insert(sorted, e) ==
    IF sorted = <<>> THEN <<e>>
    ELSE IF e[2] < Head(sorted)[2] THEN <<e>> \o sorted
    ELSE <<Head(sorted)>> \o Insert(Tail(sorted), e)

RECURSIVE sort_values(_)
sort_values(series) ==
    IF series = <<>> THEN <<>>
    ELSE Insert(sort_values(SubSeq(series, 1, Len(series) - 1)),
                series[Len(series)])

\* DataFrame.drop(columns=names): the remaining columns, in order
drop(columns, names) ==
    SelectSeq(columns, LAMBDA c : ~HasColumn(names, c))

\* df['machine_id'].unique(): the ids in order of first appearance
RECURSIVE unique(_)
unique(rows) ==
    IF rows = <<>> THEN <<>>
    ELSE LET before == unique(SubSeq(rows, 1, Len(rows) - 1))
             id == rows[Len(rows)].machine_id
         IN  IF \E i \in 1..Len(before) : before[i] = id
             THEN before ELSE Append(before, id)

SeqMin(rows, c) ==
    IF rows = <<>> THEN -1
    ELSE CHOOSE v \in {Cell(rows[i], c) : i \in 1..Len(rows)} :
            \A j \in 1..Len(rows) : v <= Cell(rows[j], c)

SeqMax(rows, c) ==
    IF rows = <<>> THEN -1
    ELSE CHOOSE v \in {Cell(rows[i], c) : i \in 1..Len(rows)} :
            \A j \in 1..Len(rows) : v >= Cell(rows[j], c)

\* DataFrame.describe() over the numeric columns: per column its count, total
\* (count and total give the mean), min and max; -1 stands for NaN
describe(columns, rows) ==
    LET numeric == drop(columns, <<MACHINE_ID>>)
    IN  [i \in 1..Len(numeric) |->
            [column |-> numeric[i],
             count |-> Len(rows),
             total |-> ColumnSum(rows, numeric[i]),
             min |-> SeqMin(rows, numeric[i]),
             max |-> SeqMax(rows, numeric[i])]]

-----------------------------------------------------------------------------
(* The two failure-by-mode aggregations *)

\* the failure filter left out
failure_df_unfiltered(rows) == rows

\* app.py:44
failure_df(rows) == SelectSeq(rows, LAMBDA r : r.failure_label = 1)

\* app.py:45
mode_cols(columns) == SelectSeq(columns, LAMBDA c : startswith(c, MODE_PREFIX))

\* app.py:44-46; df['failure_label'] raises KeyError when the column is missing
failure_counts(df) ==
    IF ~HasColumn(df.columns, FAILURE_LABEL)
    THEN [err |-> "KeyError", val |-> <<>>]
    ELSE [err |-> "none",
          val |-> sort_values(sum(failure_df(df.rows), mode_cols(df.columns)))]

\* generate_pdf_report.py:25, failures.filter(like="operating_mode")
filter_like(columns) == SelectSeq(columns, LAMBDA c : like(c, MODE_LIKE))

\* generate_pdf_report.py:24-25
fail_counts(df) ==
    IF ~HasColumn(df.columns, FAILURE_LABEL)
    THEN [err |-> "KeyError", val |-> <<>>]
    ELSE [err |-> "none",
          val |-> sort_values(sum(failure_df(df.rows), filter_like(df.columns)))]

-----------------------------------------------------------------------------
(* Tables *)

SeqsUpTo(S, n) == UNION {[1..k -> S] : k \in 0..n}

NoTable == [columns |-> <<>>, rows |-> <<>>]

\* the dashboard's tables: every required column and two one-hot mode
\* indicators; a failure row is one with the short remaining life
DashColumns ==
    <<MACHINE_ID, OPERATING_MODE_X, OPERATING_MODE_Y, REMAINING_MINUTES,
      FAILURE_LABEL>>

DashRows ==
    {[machine_id |-> m, failure_label |-> f,
      remaining_minutes |-> (IF f = 1 THEN 30 ELSE 90),
      feat |-> (OPERATING_MODE_X :> x) @@ (OPERATING_MODE_Y :> (1 - x))] :
        m \in MachineIds, f \in 0..1, x \in 0..1}

DashTables ==
    {[columns |-> DashColumns, rows |-> rs] : rs \in SeqsUpTo(DashRows, MaxRows)}

\* a file that is missing or malformed, or one that parses to a table
MissingFile == [ok |-> FALSE, table |-> NoTable]
DashFiles == {MissingFile} \cup {[ok |-> TRUE, table |-> t] : t \in DashTables}

-----------------------------------------------------------------------------
(* The framework's caches (app.py:14 and app.py:59) *)

\* a cache kept per session
cache_key_session(s, args) == <<s, args>>

\* the key of a cached call: the function's arguments, whoever calls it
cache_key(s, args) == args

\* a cache that never answers
cached_never(cache, key) == {}

\* the entries of a cache that answer the call
cached(cache, key) == {e \in cache : e.key = key}

-----------------------------------------------------------------------------
(* train_models, app.py:60-70 *)

NoModel ==
    [fit_no |-> 0, by |-> 0, features |-> <<>>, classes |-> <<>>,
     X |-> <<>>, y_cls |-> <<>>, y_reg |-> <<>>]

\* clf.classes_: the distinct labels, ascending
RECURSIVE Ascending(_)
Ascending(S) ==
    IF S = {} THEN <<>>
    ELSE LET least == CHOOSE v \in S : \A w \in S : v <= w
         IN  <<least>> \o Ascending(S \ {least})

\* the frame train_models is called on (app.py:72)
training_frame(df, subset) == df

\* app.py:61-70 for session s, as the fit_no-th fit of the process; a table
\* without rows ends the run here at the latest (fit on 0 samples)
train_models(df, s, fit_no) ==
    LET features == drop(df.columns, DROPPED)
        y_cls == [i \in 1..Len(df.rows) |-> df.rows[i].failure_label]
    IN  IF \E i \in 1..Len(DROPPED) : ~HasColumn(df.columns, DROPPED[i])
        THEN [err |-> "KeyError", val |-> NoModel]
        ELSE IF df.rows = <<>> \/ features = <<>>
        THEN [err |-> "ValueError", val |-> NoModel]
        ELSE [err |-> "none",
              val |-> [fit_no |-> fit_no, by |-> s,
                       features |-> features,
                       classes |-> Ascending({y_cls[i] : i \in 1..Len(y_cls)}),
                       X |-> [i \in 1..Len(df.rows) |->
                                [j \in 1..Len(features) |->
                                    Cell(df.rows[i], features[j])]],
                       y_cls |-> y_cls,
                       y_reg |-> [i \in 1..Len(df.rows) |->
                                    df.rows[i].remaining_minutes]]]

\* predict_proba on one row: one probability (in percent) per class of
\* clf.classes_, summing to 100; which split the forest gives is not modelled
predict_proba(model) ==
    IF Len(model.classes) = 1 THEN {<<100>>}
    ELSE {<<100 - p, p>> : p \in ProbaLevels}

\* reg.predict on one row: a mean of training targets
predict(model) ==
    {v \in RULValues : \E i \in 1..Len(model.y_reg) : model.y_reg[i] = v}

-----------------------------------------------------------------------------
(* One dashboard session *)

Sessions == DOMAIN sess

InitSession ==
    [pc |-> "new", df |-> NoTable, df_by |-> 0,
     machine_ids |-> <<>>, selected_machine |-> "None", df_machine |-> <<>>,
     summary |-> <<>>, hist |-> <<>>, failure_counts |-> <<>>,
     model |-> NoModel, slider_max |-> -1, row_idx |-> 0,
     failure_pred |-> -1, rul_pred |-> -1, err |-> "none"]

\* the comparison of the filter inverted
df_machine_other(df, selected_machine) ==
    SelectSeq(df.rows, LAMBDA r : r.machine_id # selected_machine)

\* app.py:25
df_machine(df, selected_machine) ==
    SelectSeq(df.rows, LAMBDA r : r.machine_id = selected_machine)

\* app.py:24, st.sidebar.selectbox: the widget's value when it is one of the
\* options, else the first option; None when there are no options
selectbox(options, value) ==
    IF \E i \in 1..Len(options) : options[i] = value THEN value
    ELSE IF options # <<>> THEN options[1]
    ELSE "None"

\* the histogram drawn from the selected machine's rows
hist_data_subset(df, subset) ==
    [i \in 1..Len(subset) |-> subset[i].remaining_minutes]

\* app.py:37, the column the histogram is drawn from
hist_data(df, subset) ==
    [i \in 1..Len(df.rows) |-> df.rows[i].remaining_minutes]

\* the slider's upper end off by one
slider_max_len(subset) == Len(subset)

\* app.py:75, the slider's upper end
slider_max(subset) == Len(subset) - 1

\* the script stops with an exception; `shown` tells whether the slider was
\* rendered in this run (a widget that is not rendered loses its state)
Raise(r, kind, shown) ==
    [r EXCEPT !.pc = "error", !.err = kind,
              !.slider_max = IF shown THEN @ ELSE -1,
              !.row_idx = IF shown THEN @ ELSE 0]

\* app.py:14-52: one (re)run of the script up to the Predict tab, with the
\* selectbox holding w_machine and the slider holding w_row
RunScript(s, w_machine, w_row) ==
    LET key == cache_key(s, <<>>)
        hits == cached(cache_data, key)
        entry == IF hits # {} THEN CHOOSE e \in hits : TRUE
                 ELSE [key |-> key, value |-> file.table, by |-> s]
        df == entry.value
        ids == unique(df.rows)
        selected == selectbox(ids, w_machine)
        subset == df_machine(df, selected)
        counts == failure_counts(df)
        fresh == [InitSession EXCEPT
                    !.model = sess[s].model,
                    !.slider_max = sess[s].slider_max,
                    !.row_idx = w_row]
    IN  /\ IF hits = {} /\ ~file.ok
           THEN /\ sess' = [sess EXCEPT
                                ![s] = Raise(fresh, "FileNotFoundError", FALSE)]
                /\ UNCHANGED cache_data
           ELSE /\ cache_data' = cache_data \cup {entry}
                /\ sess' = [sess EXCEPT ![s] =
                     IF ~HasColumn(df.columns, MACHINE_ID)
                        \/ ~HasColumn(df.columns, REMAINING_MINUTES)
                        \/ counts.err # "none"
                     THEN Raise([fresh EXCEPT !.df = df, !.df_by = entry.by],
                                "KeyError", FALSE)
                     ELSE [fresh EXCEPT
                             !.pc = "train",
                             !.df = df,
                             !.df_by = entry.by,
                             !.machine_ids = ids,
                             !.selected_machine = selected,
                             !.df_machine = subset,
                             !.summary = describe(df.columns, subset),
                             !.hist = hist_data(df, subset),
                             !.failure_counts = counts.val]]
       /\ UNCHANGED <<file, cache_resource, fits, report>>

Finished(s) == sess[s].pc \in {"done", "error"}

\* a browser opens the dashboard: the first run, every widget at its default
Connect(s) ==
    /\ sess[s].pc = "new"
    /\ RunScript(s, "None", 0)

\* the user picks another machine id among those the selectbox offers
SelectMachine(s, m) ==
    /\ Finished(s)
    /\ \E i \in 1..Len(sess[s].machine_ids) : sess[s].machine_ids[i] = m
    /\ m # sess[s].selected_machine
    /\ RunScript(s, m, sess[s].row_idx)

\* the user moves the slider to another index of the range it offers
MoveSlider(s, i) ==
    /\ Finished(s)
    /\ i \in 0..sess[s].slider_max
    /\ i # sess[s].row_idx
    /\ RunScript(s, sess[s].selected_machine, i)

\* the user reruns the script with the widgets as they are
Rerun(s) ==
    /\ Finished(s)
    /\ RunScript(s, sess[s].selected_machine, sess[s].row_idx)

\* app.py:72, the cached call train_models(df)
TrainModels(s) ==
    /\ sess[s].pc = "train"
    /\ LET frame == training_frame(sess[s].df, sess[s].df_machine)
           key == cache_key(s, <<frame>>)
           hits == cached(cache_resource, key)
           fitted == train_models(frame, s, fits + 1)
       IN  IF hits # {}
           THEN /\ sess' = [sess EXCEPT ![s].pc = "predict",
                                        ![s].model = (CHOOSE e \in hits : TRUE).value]
                /\ UNCHANGED <<cache_resource, fits>>
           ELSE IF fitted.err # "none"
           THEN /\ sess' = [sess EXCEPT ![s] = Raise(@, fitted.err, FALSE)]
                /\ UNCHANGED <<cache_resource, fits>>
           ELSE /\ sess' = [sess EXCEPT ![s].pc = "predict",
                                        ![s].model = fitted.val]
                /\ cache_resource' =
                       cache_resource \cup {[key |-> key, value |-> fitted.val]}
                /\ fits' = fits + 1
    /\ UNCHANGED <<file, cache_data, report>>

\* app.py:75-83: the slider, the input row and the two predictions. Over an
\* empty subset the slider has no index to offer and the run raises at the
\* extraction of the input row at the latest
Predict(s) ==
    /\ sess[s].pc = "predict"
    /\ LET r == sess[s]
           top == slider_max(r.df_machine)
           \* the slider keeps its value while its range is the same
           idx == IF r.slider_max = top THEN r.row_idx ELSE 0
           shown == [r EXCEPT !.slider_max = top, !.row_idx = idx]
           input_cols == drop(r.df.columns, DROPPED)
       IN  IF idx >= Len(r.df_machine)     \* .iloc[[row_idx]] out of bounds
           THEN sess' = [sess EXCEPT ![s] = Raise(shown, "IndexError(iloc)", TRUE)]
           ELSE IF input_cols # r.model.features
           THEN sess' = [sess EXCEPT ![s] = Raise(shown, "ValueError", TRUE)]
           ELSE \E proba \in predict_proba(r.model), rul \in predict(r.model) :
                  IF Len(proba) < 2      \* predict_proba(input_row)[0][1]
                  THEN sess' = [sess EXCEPT ![s] = Raise(shown, "IndexError(proba)", TRUE)]
                  ELSE sess' = [sess EXCEPT ![s] =
                                  [shown EXCEPT !.pc = "done",
                                                !.failure_pred = proba[2],
                                                !.rul_pred = rul]]
    /\ UNCHANGED <<file, cache_data, cache_resource, fits, report>>

-----------------------------------------------------------------------------
(* The report generator, generate_pdf_report.py *)

NoReport ==
    [pc |-> "off", df |-> NoTable, fail_counts |-> <<>>, summary |-> <<>>,
     png |-> FALSE, story |-> FALSE, pdf |-> FALSE, stdout |-> FALSE,
     err |-> "none"]

\* a run that carries on after a statement has raised
step_swallow(r, err, next) == [r EXCEPT !.pc = next]

\* the script is straight-line code with no handler: a statement that raises
\* ends the run, one that returns is followed by the next
step(r, err, next) ==
    IF err = "none" THEN [r EXCEPT !.pc = next]
    ELSE [r EXCEPT !.pc = "failed", !.err = err]

Unchanged == UNCHANGED <<file, cache_data, cache_resource, fits, sess>>

\* generate_pdf_report.py:18, FIG_PATH.mkdir
MkDir ==
    /\ report.pc = "mkdir"
    /\ \E err \in {"none", "OSError"} : report' = step(report, err, "read_csv")
    /\ Unchanged

\* generate_pdf_report.py:21, read on every run
ReadCsv ==
    /\ report.pc = "read_csv"
    /\ report' = step([report EXCEPT !.df = file.table],
                      IF file.ok THEN "none" ELSE "FileNotFoundError",
                      "aggregate")
    /\ Unchanged

\* generate_pdf_report.py:24-25
Aggregate ==
    /\ report.pc = "aggregate"
    /\ LET counts == fail_counts(report.df)
       IN  report' = step([report EXCEPT !.fail_counts = counts.val],
                          counts.err, "savefig")
    /\ Unchanged

\* generate_pdf_report.py:27-34, the chart drawn and saved
SaveFig ==
    /\ report.pc = "savefig"
    /\ \E err \in {"none", "OSError"} :
          report' = step([report EXCEPT !.png = (err = "none")], err, "story")
    /\ Unchanged

\* generate_pdf_report.py:37-79, the story with the statistics table and the
\* Image of plot_path
BuildStory ==
    /\ report.pc = "story"
    /\ report' = step([report EXCEPT
                          !.summary = describe(report.df.columns, report.df.rows),
                          !.story = TRUE],
                      "none", "build")
    /\ Unchanged

\* generate_pdf_report.py:82, doc.build reads the image and writes the PDF
DocBuild ==
    /\ report.pc = "build"
    /\ \E err \in {"none", "OSError"} :
          LET e == IF report.png THEN err ELSE "OSError"
          IN  report' = step([report EXCEPT !.pdf = (e = "none")], e, "print")
    /\ Unchanged

\* generate_pdf_report.py:83
PrintDone ==
    /\ report.pc = "print"
    /\ report' = step([report EXCEPT !.stdout = TRUE], "none", "done")
    /\ Unchanged

\* the report's tables: any of the optional columns, present or not
ReportAllColumns ==
    <<MACHINE_ID, PREV_OPERATING_MODE, OPERATING_MODE_X, OPERATING_MODE_Y,
      REMAINING_MINUTES, FAILURE_LABEL>>

OptionalFeatures == {PREV_OPERATING_MODE, OPERATING_MODE_X, OPERATING_MODE_Y}

ReportColumns(present) ==
    SelectSeq(ReportAllColumns,
              LAMBDA c : c \in {MACHINE_ID, REMAINING_MINUTES} \cup present)

ReportRows(present) ==
    {[machine_id |-> "A", failure_label |-> f, remaining_minutes |-> 30,
      feat |-> g] :
        f \in (IF FAILURE_LABEL \in present THEN 0..1 ELSE {0}),
        g \in [present \cap OptionalFeatures -> 0..1]}

\* the report's files: missing, or a table with the columns `present` and
\* at most MaxRows rows
IsReportFile(f) ==
    \/ f = MissingFile
    \/ \E present \in SUBSET (OptionalFeatures \cup {FAILURE_LABEL}) :
       \E k \in 0..MaxRows :
       \E rs \in [1..k -> ReportRows(present)] :
          f = [ok |-> TRUE,
               table |-> [columns |-> ReportColumns(present), rows |-> rs]]

-----------------------------------------------------------------------------
(* Specifications *)

DashNext ==
    \/ \E s \in Sessions : Connect(s)
    \/ \E s \in Sessions : \E m \in MachineIds : SelectMachine(s, m)
    \/ \E s \in Sessions : \E i \in 0..MaxRows : MoveSlider(s, i)
    \/ \E s \in Sessions : Rerun(s)
    \/ \E s \in Sessions : TrainModels(s)
    \/ \E s \in Sessions : Predict(s)

\* one browser session over any file
Init ==
    /\ file \in DashFiles
    /\ cache_data = {}
    /\ cache_resource = {}
    /\ fits = 0
    /\ sess = [s \in {1} |-> InitSession]
    /\ report = NoReport

Next == DashNext

Spec == Init /\ [][Next]_vars

\* the files of the specifications that follow several runs or sessions:
\* rows differ in their machine alone, machine A's rows being the failures
ProcFiles ==
    {f \in DashFiles :
        \A i \in 1..Len(f.table.rows) :
            LET r == f.table.rows[i]
            IN  /\ r.feat[OPERATING_MODE_X] = 1
                /\ r.failure_label = (IF r.machine_id = "A" THEN 1 ELSE 0)}

\* the file is replaced on disk while the dashboard runs
RewriteFile ==
    /\ \E f \in ProcFiles : f # file /\ file' = f
    /\ UNCHANGED <<cache_data, cache_resource, fits, sess, report>>

\* one browser session, the file may change under it
InitSession1 ==
    /\ file \in ProcFiles
    /\ cache_data = {}
    /\ cache_resource = {}
    /\ fits = 0
    /\ sess = [s \in {1} |-> InitSession]
    /\ report = NoReport

NextSession == DashNext \/ RewriteFile

SpecSession == InitSession1 /\ [][NextSession]_vars

\* several browser sessions served by one process
InitProc ==
    /\ file \in ProcFiles
    /\ cache_data = {}
    /\ cache_resource = {}
    /\ fits = 0
    /\ sess = [s \in SessionIds |-> InitSession]
    /\ report = NoReport

SpecProc == InitProc /\ [][DashNext]_vars

\* one run of the report generator over any file
InitReport ==
    /\ IsReportFile(file)
    /\ cache_data = {}
    /\ cache_resource = {}
    /\ fits = 0
    /\ sess = <<>>
    /\ report = [NoReport EXCEPT !.pc = "mkdir"]

ReportNext ==
    \/ MkDir
    \/ ReadCsv
    \/ Aggregate
    \/ SaveFig
    \/ BuildStory
    \/ DocBuild
    \/ PrintDone

SpecReport == InitReport /\ [][ReportNext]_vars

-----------------------------------------------------------------------------
(* Properties *)

\* a session in state r has rendered the Summary and Failures tabs in its
\* current run
ViewedIn(r) ==
    \/ r.pc \in {"train", "predict", "done"}
    \/ r.pc = "error" /\ r.err \notin {"FileNotFoundError", "KeyError"}

Viewed(s) == ViewedIn(sess[s])

\* the operating-mode indicator columns of a table
IndicatorColumns(columns) ==
    {c \in {OPERATING_MODE_X, OPERATING_MODE_Y} : HasColumn(columns, c)}

\* the failure rows of `rows` in which indicator c is set
FailTotal(rows, c) ==
    Cardinality({i \in 1..Len(rows) :
                    rows[i].failure_label = 1 /\ Cell(rows[i], c) = 1})

\* the Series has one entry for column c, and it is v
HoldsExactly(series, c, v) ==
    \E j \in 1..Len(series) :
        /\ {k \in 1..Len(series) : series[k][1] = c} = {j}
        /\ series[j][2] = v

NoFailureRows(df) ==
    /\ HasColumn(df.columns, FAILURE_LABEL)
    /\ \A i \in 1..Len(df.rows) : df.rows[i].failure_label # 1

\* the report generator has loaded a table and gone through lines 24-25
AggregationDone ==
    /\ report.pc \notin {"off", "mkdir", "read_csv", "aggregate"}
    /\ report.df.columns # <<>>

\* C1: whatever machine is selected, the dashboard's failure view and the
\* report's aggregation give each operating-mode indicator column the number
\* of failure rows of the whole table in which the indicator is set.
C1_FailureByMode ==
    \A s \in Sessions :
        Viewed(s) =>
            \A c \in IndicatorColumns(file.table.columns) :
                /\ HoldsExactly(sess[s].failure_counts, c,
                                FailTotal(file.table.rows, c))
                /\ HoldsExactly(fail_counts(file.table).val, c,
                                FailTotal(file.table.rows, c))

\* two failures of machine A in mode X, machine B without failures
C1_Witness ==
    \E s \in Sessions :
        /\ Viewed(s)
        /\ sess[s].failure_counts =
              <<<<OPERATING_MODE_Y, 0>>, <<OPERATING_MODE_X, 2>>>>
        /\ \E i \in 1..Len(file.table.rows) :
              file.table.rows[i].machine_id = "B"
        /\ \A i \in 1..Len(file.table.rows) :
              file.table.rows[i].machine_id = "B"
                  => file.table.rows[i].failure_label = 0

\* C2: on a table without failure rows the aggregation raises nothing and
\* holds one entry, 0, for every operating-mode indicator column, in the
\* report generator and in the dashboard alike.
C2_ZeroFailures ==
    (AggregationDone /\ NoFailureRows(report.df)) =>
        LET dash == failure_counts(report.df)
            cols == IndicatorColumns(report.df.columns)
        IN  /\ report.err # "KeyError"
            /\ dash.err = "none"
            /\ Len(dash.val) = Cardinality(cols)
            /\ \A c \in cols :
                  /\ HoldsExactly(report.fail_counts, c, 0)
                  /\ HoldsExactly(dash.val, c, 0)

C2_Witness ==
    /\ AggregationDone
    /\ NoFailureRows(report.df)
    /\ Len(report.df.rows) >= 2
    /\ IndicatorColumns(report.df.columns) = {OPERATING_MODE_X, OPERATING_MODE_Y}
    /\ \E i \in 1..Len(report.df.rows) : report.df.rows[i].feat[OPERATING_MODE_X] = 1

\* C3: a prediction requested with an in-range row index and the training-time
\* feature columns does not fail and yields a probability between 0 and 1
\* (0..100 percent), whatever values failure_label takes.
C3_PredictionSucceeds ==
    \A s \in Sessions :
        ( /\ Finished(s)
          /\ sess[s].slider_max >= 0
          /\ sess[s].row_idx \in 0..(Len(sess[s].df_machine) - 1)
          /\ drop(sess[s].df.columns, DROPPED) = sess[s].model.features )
        => /\ sess[s].pc = "done"
           /\ sess[s].failure_pred \in 0..100

\* C4: when the script reaches the slider the selected machine's subset is
\* not empty, the index the slider holds is a position of that subset, and
\* neither the slider nor the extraction of the input row ever raises.
C4_RowIndexInRange ==
    \A s \in Sessions :
        /\ sess[s].pc = "predict" => Len(sess[s].df_machine) >= 1
        /\ (Finished(s) /\ sess[s].slider_max >= 0) =>
              sess[s].row_idx \in 0..(Len(sess[s].df_machine) - 1)
        /\ sess[s].err # "IndexError(iloc)"

\* the user has picked the second machine and moved the slider off 0
C4_Witness ==
    \E s \in Sessions :
        /\ sess[s].pc = "done"
        /\ sess[s].row_idx >= 1
        /\ Len(sess[s].machine_ids) = 2
        /\ sess[s].selected_machine = sess[s].machine_ids[2]

\* C5: the report generator's aggregation and the dashboard's failure view
\* select the same columns and give the same counts in the same order, for
\* every set of column names.
C5_SameAlgorithm ==
    (AggregationDone /\ report.err # "KeyError") =>
        report.fail_counts = failure_counts(report.df).val

\* C6: in a session the model pair is fitted at most once, by the first run
\* that reaches the Predict tab; from then on every run, whatever the machine,
\* the row index or the file on disk, is served by that same pair.
C6_TrainedOnce ==
    /\ [](fits <= 1)
    /\ [](\A s \in Sessions :
            /\ fits = 0 => sess[s].model = NoModel
            /\ sess[s].pc \in {"predict", "done"} =>
                  (fits = 1 /\ sess[s].model.fit_no = 1))
    /\ [][\A s \in Sessions :
            sess[s].model # NoModel => sess'[s].model = sess[s].model]_vars

\* a run served by the pair after the machine was changed and the file replaced
C6_Witness ==
    \E s \in Sessions :
        /\ sess[s].pc = "done"
        /\ fits = 1
        /\ file.table # sess[s].df
        /\ Len(sess[s].machine_ids) = 2
        /\ sess[s].selected_machine = sess[s].machine_ids[2]

\* C7 as stated: a session reads only the table it loaded itself and uses
\* only the model pair it trained itself.
C7_SessionsIsolated ==
    \A s \in Sessions :
        /\ sess[s].df_by \in {0, s}
        /\ sess[s].model.by \in {0, s}

\* C7 as amended: the two caches belong to the process. The file is read at
\* most once and the pair fitted at most once, by whichever session asks
\* first; all sessions see that table and hold that pair.
C7_ProcessWideCaches ==
    /\ fits <= 1
    /\ Cardinality(cache_data) <= 1
    /\ Cardinality(cache_resource) <= 1
    /\ \A s, t \in Sessions :
          /\ (sess[s].df_by # 0 /\ sess[t].df_by # 0) =>
                (sess[s].df_by = sess[t].df_by /\ sess[s].df = sess[t].df)
          /\ (sess[s].model # NoModel /\ sess[t].model # NoModel) =>
                sess[s].model = sess[t].model

\* a session has finished a run with the pair another session trained
C7_Witness ==
    \E s, t \in Sessions :
        /\ s # t
        /\ sess[s].pc = "done"
        /\ sess[t].pc = "done"
        /\ sess[t].model.by = s
        /\ sess[t].df_by = s

\* C8: when all rows carry one machine id, the selected machine's subset is
\* the whole table, row for row, and the summary is the summary of the table.
C8_SingleMachine ==
    \A s \in Sessions :
        ( /\ Viewed(s)
          /\ \A i, j \in 1..Len(file.table.rows) :
                file.table.rows[i].machine_id = file.table.rows[j].machine_id )
        => /\ sess[s].df_machine = file.table.rows
           /\ sess[s].summary = describe(file.table.columns, file.table.rows)

C8_Witness ==
    \E s \in Sessions :
        /\ Viewed(s)
        /\ Len(file.table.rows) >= 2
        /\ \A i \in 1..Len(file.table.rows) :
              file.table.rows[i].machine_id = "B"
        /\ \E i, j \in 1..Len(file.table.rows) :
              file.table.rows[i] # file.table.rows[j]

\* C9: the report's steps come in order (table, aggregation, chart image,
\* story, PDF, message): the image is on disk before the story embeds it, the
\* message is printed only after the PDF is written, and a run that failed
\* has printed nothing.
C9_ReportOrder ==
    /\ report.stdout => report.pdf
    /\ report.pdf => report.story
    /\ report.story => report.png
    /\ report.png => AggregationDone
    /\ report.pc = "failed" => (~report.stdout /\ report.err # "none")
    /\ report.pc = "done" <=> report.stdout

C9_Witness ==
    /\ report.pc = "done"
    /\ report.stdout
    /\ report.pdf
    /\ report.png
    /\ Len(report.fail_counts) >= 2

\* C10: the selected machine has no part in the histogram, the failure
\* counts or the training: from one run to the next, whatever is selected, the
\* histogram's data and the failure-by-mode counts are the same and the pair
\* in use is the same, fitted on every row of the table.
C10_SelectionIndependent ==
    /\ [](\A s \in Sessions :
            sess[s].model # NoModel =>
                /\ Len(sess[s].model.X) = Len(file.table.rows)
                /\ sess[s].model.y_cls =
                      [i \in 1..Len(file.table.rows) |->
                          file.table.rows[i].failure_label])
    /\ [][\A s \in Sessions :
            (Viewed(s) /\ ViewedIn(sess'[s])) =>
                /\ sess'[s].hist = sess[s].hist
                /\ sess'[s].failure_counts = sess[s].failure_counts
                /\ sess[s].model # NoModel => sess'[s].model = sess[s].model]_vars

\* the second machine is selected; the summary covers its rows alone while
\* the histogram covers the table, and the pair was fitted on the table
C10_Witness ==
    \E s \in Sessions :
        /\ sess[s].pc = "done"
        /\ Len(sess[s].machine_ids) = 2
        /\ sess[s].selected_machine = sess[s].machine_ids[2]
        /\ sess[s].summary[1].count < Len(sess[s].hist)
        /\ Len(sess[s].model.X) = Len(sess[s].hist)

====
